---- MODULE Spec2Model ----
(***************************************************************************)
(* Model of the PKM backend's AI endpoints (cleanup, rephrase, chat,       *)
(* AI search, model listing, health), the Ollama facade they call, the AI  *)
(* session log they write, and the workspace and note endpoints with the   *)
(* markdown files they keep on disk.  Every request handler is one atomic  *)
(* action that chooses how the LLM host answers during the request; the    *)
(* relational store and the notes directory are reliable (a commit fails   *)
(* only on a constraint, a file write or removal never fails) and wall-    *)
(* clock values (processing_time_ms, created_at, updated_at) are left out  *)
(* of the records.  Two further specifications lift these assumptions:     *)
(* SpecUnreliable lets the commits of an AI request fail, and SpecWorkers  *)
(* runs workspace creation and note update in two worker processes, each   *)
(* handler split where another process can commit in between.             *)
(***************************************************************************)
EXTENDS Integers, Sequences, FiniteSets, TLC

VARIABLES
    workspaces,    \* table workspaces: id -> [name, description, color]
    notes,         \* table notes with note_tags folded in:
                   \* id -> [title, content, workspace_id, file_path, tags]
    tags,          \* table tags: id -> [name, color]
    files,         \* the notes directory: relative path -> text of the file
    ai_sessions,   \* table ai_sessions, in insertion order
    request,       \* the request handled last
    response,      \* the HTTP response to it
    call,          \* what that handler reached: facade method, LLM host, calls
    invocations,   \* AI requests handled past validation and note lookup
    store_requests, \* workspace and note requests handled
    workers        \* per worker process: the request it is handling, if any,
                   \* and what its ORM session has loaded for it

vars == <<workspaces, notes, tags, files, ai_sessions, request, response, call,
          invocations, store_requests, workers>>

(***************************************************************************)
(* Bounds                                                                  *)
(***************************************************************************)
\* The number of AI invocations (and so the longest AI session log) explored.
MaxInvocations == 2

\* The number of workspace and note requests explored.
MaxStoreRequests == 3

\* The worker processes that serve requests over the one database.
Workers == {1, 2}

\* A worker process between two requests.
Idle == [pc |-> "idle"]

(***************************************************************************)
(* Python values                                                           *)
(***************************************************************************)
\* Optional[T]: None is the empty tuple, a value v is the 1-tuple <<v>>.
None == <<>>

Some(v) == <<v>>

Range(s) == {s[i] : i \in 1..Len(s)}

\* s[:n]
PyPrefix(s, n) == IF Len(s) <= n THEN s ELSE SubSeq(s, 1, n)

RECURSIVE PyJoinInts(_)
PyJoinInts(ids) ==
    IF Len(ids) = 0 THEN ""
    ELSE IF Len(ids) = 1 THEN ToString(ids[1])
    ELSE ToString(ids[1]) \o ", " \o PyJoinInts(Tail(ids))

\* Mutant: only the first id of the list is written out.
PyStrList_first_only(ids) == "[" \o ToString(ids[1]) \o "]"

\* str(list_of_ints), e.g. str([2, 1]) = "[2, 1]"
PyStrList(ids) == "[" \o PyJoinInts(ids) \o "]"

\* A truthy Optional[List]: neither None nor the empty list.
Truthy(opt) == opt # None /\ Len(opt[1]) > 0

(***************************************************************************)
(* Configuration                                                           *)
(***************************************************************************)
default_model == "llama3.2:1b"

(***************************************************************************)
(* Request schemas (pydantic validation at the request boundary)           *)
(***************************************************************************)
AICleanupRequest(note_id, cleanup_type) ==
    cleanup_type \in {"grammar", "structure", "clarity", "full"}

\* Mutant: the text field without its min_length.
AIRephraseRequest_no_min_length(text, style) ==
    style \in {"academic", "casual", "formal", "creative"}

AIRephraseRequest(text, style) ==
    /\ Len(text) >= 1
    /\ style \in {"academic", "casual", "formal", "creative"}

AISearchRequest(query, workspace_ids, max_results) ==
    /\ Len(query) >= 1
    /\ max_results >= 1
    /\ max_results <= 50

AIChatRequest(message, note_ids) ==
    Len(message) >= 1

(***************************************************************************)
(* The generation client and the facade (OllamaService)                    *)
(***************************************************************************)
\* How the LLM host answers client.chat: with a completion, with an API
\* error (ResponseError), or not at all (any other exception).
OllamaStates == {"ok", "response_error", "unreachable"}

\* The assistant's text for a chat request the host answers.
ChatReply(messages) == "LLM: " \o messages[Len(messages)].content

Returned(value, chat_calls) ==
    [ok |-> TRUE, value |-> value, error |-> "", chat_calls |-> chat_calls]

Raised(error, chat_calls) ==
    [ok |-> FALSE, value |-> "", error |-> error, chat_calls |-> chat_calls]

\* Mutant: generate calls the client a second time when the first call fails.
generate_retrying(prompt, system_prompt, host) ==
    IF host = "ok" THEN Returned("LLM: " \o prompt, 1)
    ELSE IF host = "response_error"
        THEN Raised("Ollama API error: model not found", 2)
        ELSE Raised("Failed to generate text: Connection refused", 2)

\* Mutant: generate swallows the client's failure and returns no text.
generate_swallowing_errors(prompt, system_prompt, host) ==
    IF host = "ok" THEN Returned("LLM: " \o prompt, 1) ELSE Returned("", 1)

\* The messages generate hands to client.chat: the system prompt, if there
\* is one, then the user's prompt.
ChatMessages(prompt, system_prompt) ==
    (IF system_prompt # ""
        THEN <<[role |-> "system", content |-> system_prompt]>>
        ELSE <<>>)
    \o <<[role |-> "user", content |-> prompt]>>

OllamaService_generate(prompt, system_prompt, host) ==
    LET messages == ChatMessages(prompt, system_prompt)
    IN  IF host = "ok" THEN Returned(ChatReply(messages), 1)
        ELSE IF host = "response_error"
            THEN Raised("Ollama API error: model not found", 1)
            ELSE Raised("Failed to generate text: Connection refused", 1)

\* Mutant: the selection falls back to the grammar prompt.
system_prompts_default_grammar(cleanup_type) ==
    CASE cleanup_type = "structure" ->
            "You are a writing expert. Improve the structure and flow of the following text while keeping the original meaning."
      [] cleanup_type = "clarity" ->
            "You are a clarity expert. Make the following text clearer and more concise while preserving all important information."
      [] cleanup_type = "full" ->
            "You are a writing expert. Improve the grammar, structure, and clarity of the following text while preserving the original meaning."
      [] OTHER ->
            "You are a grammar expert. Fix only grammar and spelling errors in the following text. Keep the original meaning and style intact."

system_prompts(cleanup_type) ==
    CASE cleanup_type = "grammar" ->
            "You are a grammar expert. Fix only grammar and spelling errors in the following text. Keep the original meaning and style intact."
      [] cleanup_type = "structure" ->
            "You are a writing expert. Improve the structure and flow of the following text while keeping the original meaning."
      [] cleanup_type = "clarity" ->
            "You are a clarity expert. Make the following text clearer and more concise while preserving all important information."
      [] OTHER ->
            "You are a writing expert. Improve the grammar, structure, and clarity of the following text while preserving the original meaning."

OllamaService_cleanup_text(text, cleanup_type, host) ==
    OllamaService_generate(text, system_prompts(cleanup_type), host)

\* Mutant: the fallback instruction is made up from the style it was given.
style_prompts_varying_default(style) ==
    CASE style = "academic" ->
            "You are an academic writing expert. Rephrase the following text in a formal, scholarly tone suitable for academic papers. Use precise terminology and maintain objectivity."
      [] style = "casual" ->
            "You are a communication expert. Rephrase the following text in a casual, friendly tone suitable for informal conversations."
      [] style = "creative" ->
            "You are a creative writing expert. Rephrase the following text in an engaging, creative style that captures attention while maintaining the core message."
      [] style = "formal" ->
            "You are a formal writing expert. Rephrase the following text in a formal, respectful tone suitable for official communications."
      [] style = "professional" ->
            "You are a business writing expert. Rephrase the following text in a professional, corporate tone suitable for workplace communication."
      [] OTHER ->
            "Rephrase the following text in a " \o style \o " tone."

style_prompts(style) ==
    CASE style = "academic" ->
            "You are an academic writing expert. Rephrase the following text in a formal, scholarly tone suitable for academic papers. Use precise terminology and maintain objectivity."
      [] style = "casual" ->
            "You are a communication expert. Rephrase the following text in a casual, friendly tone suitable for informal conversations."
      [] style = "creative" ->
            "You are a creative writing expert. Rephrase the following text in an engaging, creative style that captures attention while maintaining the core message."
      [] style = "formal" ->
            "You are a formal writing expert. Rephrase the following text in a formal, respectful tone suitable for official communications."
      [] OTHER ->
            "You are a business writing expert. Rephrase the following text in a professional, corporate tone suitable for workplace communication."

OllamaService_rephrase_text(text, style, host) ==
    OllamaService_generate(text, style_prompts(style), host)

OllamaService_chat_with_context(message, context, host) ==
    OllamaService_generate(
        message,
        IF context # ""
            THEN "You are a helpful assistant. Use the following context to answer questions:\n\n"
                 \o context
                 \o "\n\nAnswer based on the provided context when relevant, but you can also use your general knowledge."
            ELSE "You are a helpful assistant. Provide clear, informative answers to questions.",
        host)

\* client.list(): the installed models, or an exception when the host does
\* not answer.
AsyncClient_list(host) ==
    IF host = "ok" THEN Returned([models |-> <<[name |-> default_model]>>], 0)
    ELSE IF host = "response_error" THEN Raised("model registry unavailable", 0)
    ELSE Raised("Connection refused", 0)

\* Mutant: list_models without its except branch.
list_models_raising(host) ==
    LET models_response == AsyncClient_list(host)
    IN  IF models_response.ok
           THEN Returned([k \in 1..Len(models_response.value.models) |->
                            models_response.value.models[k].name], 0)
           ELSE Raised(models_response.error, 0)

OllamaService_list_models(host) ==
    LET models_response == AsyncClient_list(host)
    IN  IF models_response.ok
           THEN Returned([k \in 1..Len(models_response.value.models) |->
                            models_response.value.models[k].name], 0)
           ELSE Returned(<<>>, 0)

\* Mutant: check_health without its except branch.
check_health_raising(host) ==
    LET models_response == AsyncClient_list(host)
    IN  IF models_response.ok THEN Returned(TRUE, 0)
        ELSE Raised(models_response.error, 0)

OllamaService_check_health(host) ==
    LET models_response == AsyncClient_list(host)
    IN  IF models_response.ok THEN Returned(TRUE, 0) ELSE Returned(FALSE, 0)

\* ollama_service.<method>(*args): the methods the class defines run; any
\* other attribute lookup raises AttributeError before anything is called.
ollama_service(method, args, host) ==
    CASE method = "generate" -> OllamaService_generate(args[1], args[2], host)
      [] method = "cleanup_text" -> OllamaService_cleanup_text(args[1], args[2], host)
      [] method = "rephrase_text" -> OllamaService_rephrase_text(args[1], args[2], host)
      [] method = "chat_with_context" ->
            OllamaService_chat_with_context(args[1], args[2], host)
      [] method = "list_models" -> OllamaService_list_models(host)
      [] method = "check_health" -> OllamaService_check_health(host)
      [] OTHER ->
            Raised("'OllamaService' object has no attribute '" \o method \o "'", 0)

(***************************************************************************)
(* The store: queries, the AI session log                                  *)
(***************************************************************************)
\* Mutant: a lookup that hands back an empty note instead of nothing.
query_note_first_or_blank(rows, note_id) ==
    IF note_id \in DOMAIN rows THEN Some(rows[note_id])
    ELSE Some([title |-> "", content |-> "", workspace_id |-> 0])

\* db.query(NoteModel).filter(NoteModel.id == note_id).first()
query_note_first(rows, note_id) ==
    IF note_id \in DOMAIN rows THEN Some(rows[note_id]) ELSE None

\* query.all(): the selected rows.  The queries carry no ORDER BY; SQLite,
\* the configured engine, walks the table by primary key, so the rows come
\* in ascending id whatever order a request listed the ids in.
RECURSIVE query_all(_)
query_all(selected) ==
    IF selected = {} THEN <<>>
    ELSE LET first == CHOOSE i \in selected : \A j \in selected : i <= j
         IN  <<first>> \o query_all(selected \ {first})

\* Mutant: a failed invocation keeps the error text in the response column.
AISessionModel_error_as_response(session_type, query, resp, note_ids, success) ==
    [session_type |-> session_type, query |-> query,
     response |-> IF success THEN resp ELSE Some("error"),
     model_used |-> default_model, note_ids |-> note_ids, success |-> success]

\* Mutant: the success flag left to its column default (True).
AISessionModel_default_success(session_type, query, resp, note_ids, success) ==
    [session_type |-> session_type, query |-> query, response |-> resp,
     model_used |-> default_model, note_ids |-> note_ids, success |-> TRUE]

AISessionModel(session_type, query, resp, note_ids, success) ==
    [session_type |-> session_type, query |-> query, response |-> resp,
     model_used |-> default_model, note_ids |-> note_ids, success |-> success]

\* Mutant: the record is added to the session but never committed.
db_add_session_uncommitted(sessions, ai_session) == sessions

\* db.add(ai_session); db.commit()
db_add_session(sessions, ai_session) == Append(sessions, ai_session)

(***************************************************************************)
(* Responses                                                               *)
(***************************************************************************)
\* Mutant: the envelope always reports success.
AIResponse_always_success(success, resp, error) ==
    [status |-> 200, kind |-> "envelope", success |-> TRUE,
     response |-> resp, error |-> error, model_used |-> default_model]

AIResponse(success, resp, error) ==
    [status |-> 200, kind |-> "envelope", success |-> success,
     response |-> resp, error |-> error, model_used |-> default_model]

SearchResponse(results, total_count, query) ==
    [status |-> 200, kind |-> "search", results |-> results,
     total_count |-> total_count, query |-> query]

HTTPException(status_code, detail) ==
    [status |-> status_code, kind |-> "error", detail |-> detail]

\* FastAPI's answer to a body that fails its schema.
RequestValidationError == HTTPException(422, "validation error")

\* An exception no handler catches: the framework's 500, the session rolled back.
InternalServerError == HTTPException(500, "Internal Server Error")

\* The handler reached neither the facade nor the LLM host.
NoCall ==
    [method |-> "none", host |-> "none", note_contents |-> <<>>,
     chat_calls |-> 0, raised |-> FALSE]

FacadeCall(method, host, note_contents, r) ==
    [method |-> method, host |-> host, note_contents |-> note_contents,
     chat_calls |-> r.chat_calls, raised |-> ~r.ok]

\* f"{note.title}\n\n{note.content}" for note in notes
NoteContents(rows) ==
    [k \in 1..Len(rows) |-> notes[rows[k]].title \o "\n\n" \o notes[rows[k]].content]

(***************************************************************************)
(* Sample store contents and request inputs                                *)
(***************************************************************************)
\* Rows as the fixtures insert them, straight into the tables: a note so
\* inserted has no file and no file_path.
SampleWorkspaces ==
    (1 :> [name |-> "CS", description |-> Some("A workspace for testing"),
           color |-> Some("#3B82F6")])
    @@ (2 :> [name |-> "Math", description |-> None, color |-> Some("#3B82F6")])

SampleTags == (1 :> [name |-> "test-tag", color |-> Some("#10B981")])

SampleNotes ==
    (1 :> [title |-> "T", content |-> "bad grammar text", workspace_id |-> 1,
           file_path |-> None, tags |-> {}])
    @@ (2 :> [title |-> "U", content |-> "slow algorithm", workspace_id |-> 2,
              file_path |-> None, tags |-> {}])

Texts == {"", "hi"}

StyleInputs == {"academic", "formal", "professional", "bogus"}

CleanupTypeInputs == {"grammar", "bogus"}

NoteIdInputs == {1, 2}

NoteIdListInputs == {None, Some(<<>>), Some(<<1>>), Some(<<1, 2>>), Some(<<2, 1>>)}

WorkspaceIdListInputs == {None, Some(<<1>>)}

MaxResultsInputs == {0, 10, 51}

(***************************************************************************)
(* Handlers                                                                *)
(***************************************************************************)
\* Mutant: the handler writes generated text back into the notes.
StoreUnchanged_writing_back ==
    /\ notes' = [i \in DOMAIN notes |->
                    [notes[i] EXCEPT !.content = "LLM: " \o notes[i].content]]
    /\ UNCHANGED <<workspaces, tags, files, store_requests, workers>>

\* What every AI handler leaves alone.
StoreUnchanged == UNCHANGED <<workspaces, notes, tags, files, store_requests, workers>>

Rejected(resp) ==
    /\ response' = resp
    /\ call' = NoCall
    /\ UNCHANGED <<ai_sessions, invocations>>

\* An AI handler past validation and note lookup: start_time = time.time()
Started ==
    /\ invocations < MaxInvocations
    /\ invocations' = invocations + 1

\* How the store takes the commits of one request: all of them, all but the
\* first, or none.
CommitOutcomes == {"ok", "first_commit_fails", "commits_fail"}

\* str(e) of the exception a failed db.commit() raises.
CommitError == "(sqlite3.OperationalError) database is locked"

\* The try/except of an envelope handler from the facade's result r on.  The
\* try block writes the success record and returns the success envelope; any
\* exception in it, from the facade or from the record's commit, runs the
\* except block, which writes the failure record and returns the failure
\* envelope; an exception in the except block leaves the handler.  A failed
\* commit is rolled back, so the record it was to write is not stored.
try_except(sessions, session_type, query, note_ids, r, db) ==
    LET except_block(error, commit_ok) ==
            IF commit_ok
                THEN [ai_sessions |-> db_add_session(sessions,
                          AISessionModel(session_type, query, None, note_ids, FALSE)),
                      response |-> AIResponse(FALSE, None, Some(error))]
                ELSE [ai_sessions |-> sessions, response |-> InternalServerError]
    IN  IF r.ok
           THEN IF db = "ok"
                   THEN [ai_sessions |-> db_add_session(sessions,
                             AISessionModel(session_type, query, Some(r.value),
                                            note_ids, TRUE)),
                         response |-> AIResponse(TRUE, Some(r.value), None)]
                   ELSE except_block(CommitError, db = "first_commit_fails")
           ELSE except_block(r.error, db = "ok")

\* POST /ai/cleanup
cleanup_note_with(note_id, cleanup_type, db) ==
    LET note == query_note_first(notes, note_id)
        query == "Cleanup type: " \o cleanup_type
        note_ids == Some(PyStrList(<<note_id>>))
    IN  /\ request' = [endpoint |-> "cleanup", note_id |-> note_id,
                       cleanup_type |-> cleanup_type]
        /\ StoreUnchanged
        /\ IF ~AICleanupRequest(note_id, cleanup_type)
              THEN Rejected(RequestValidationError)
           ELSE IF note = None
              THEN Rejected(HTTPException(404, "Note not found"))
           ELSE \E host \in OllamaStates :
                LET r == ollama_service("cleanup_text",
                                        <<note[1].content, cleanup_type>>, host)
                    out == try_except(ai_sessions, "cleanup", query, note_ids, r, db)
                IN
                /\ Started
                /\ call' = FacadeCall("cleanup_text", host, <<>>, r)
                /\ ai_sessions' = out.ai_sessions
                /\ response' = out.response

\* The handler over a store that takes every commit.
cleanup_note(note_id, cleanup_type) == cleanup_note_with(note_id, cleanup_type, "ok")

\* POST /ai/rephrase
rephrase_text_with(text, style, db) ==
    LET query == "Style: " \o style \o ", Text: " \o PyPrefix(text, 100) \o "..."
    IN  /\ request' = [endpoint |-> "rephrase", text |-> text, style |-> style]
        /\ StoreUnchanged
        /\ IF ~AIRephraseRequest(text, style)
              THEN Rejected(RequestValidationError)
           ELSE \E host \in OllamaStates :
                LET r == ollama_service("rephrase_text", <<text, style>>, host)
                    out == try_except(ai_sessions, "rephrase", query, None, r, db)
                IN
                /\ Started
                /\ call' = FacadeCall("rephrase_text", host, <<>>, r)
                /\ ai_sessions' = out.ai_sessions
                /\ response' = out.response

\* The handler over a store that takes every commit.
rephrase_text(text, style) == rephrase_text_with(text, style, "ok")

\* POST /ai/chat
chat_with_notes_with(message, note_ids, db) ==
    LET selected == IF Truthy(note_ids)
                       THEN {i \in DOMAIN notes : i \in Range(note_ids[1])}
                       ELSE {}
        stored_ids == IF Truthy(note_ids) THEN Some(PyStrList(note_ids[1])) ELSE None
    IN  /\ request' = [endpoint |-> "chat", message |-> message, note_ids |-> note_ids]
        /\ StoreUnchanged
        /\ IF ~AIChatRequest(message, note_ids)
              THEN Rejected(RequestValidationError)
           ELSE \E host \in OllamaStates :
                LET rows == query_all(selected)
                    note_contents == NoteContents(rows)
                    r == ollama_service("chat_with_notes", <<message, note_contents>>, host)
                    out == try_except(ai_sessions, "chat", message, stored_ids, r, db)
                IN  /\ Started
                    /\ call' = FacadeCall("chat_with_notes", host, note_contents, r)
                    /\ ai_sessions' = out.ai_sessions
                    /\ response' = out.response

\* The handler over a store that takes every commit.
chat_with_notes(message, note_ids) == chat_with_notes_with(message, note_ids, "ok")

\* The loop of search_notes over the facade's ranking: entries past the low
\* relevance cut (scores in hundredths) whose index names a fetched note.
RECURSIVE SearchResults(_, _)
SearchResults(search_results, rows) ==
    IF search_results = <<>> THEN <<>>
    ELSE LET result == Head(search_results)
             rest == SearchResults(Tail(search_results), rows)
         IN  IF result.relevance_score > 10
                /\ 0 <= result.index
                /\ result.index < Len(rows)
                THEN <<[note_id |-> rows[result.index + 1],
                        note_title |-> notes[rows[result.index + 1]].title,
                        relevance_score |-> result.relevance_score,
                        snippet |-> result.snippet,
                        workspace_name |->
                            workspaces[notes[rows[result.index + 1]].workspace_id].name]>>
                     \o rest
                ELSE rest

\* POST /search
search_notes(query, workspace_ids, max_results) ==
    LET selected == IF Truthy(workspace_ids)
                       THEN {i \in DOMAIN notes :
                                notes[i].workspace_id \in Range(workspace_ids[1])}
                       ELSE DOMAIN notes
    IN  /\ request' = [endpoint |-> "search", query |-> query,
                       workspace_ids |-> workspace_ids, max_results |-> max_results]
        /\ StoreUnchanged
        /\ IF ~AISearchRequest(query, workspace_ids, max_results)
              THEN Rejected(RequestValidationError)
           ELSE \E host \in OllamaStates :
                LET rows == query_all(selected)
                    note_contents == NoteContents(rows)
                    r == ollama_service("search_notes", <<query, note_contents>>, host)
                    results == SearchResults(PyPrefix(r.value, max_results), rows)
                IN  /\ Started
                    /\ IF Len(rows) = 0
                          THEN /\ response' = SearchResponse(<<>>, 0, query)
                               /\ call' = NoCall
                               /\ UNCHANGED ai_sessions
                       ELSE IF r.ok
                          THEN /\ call' = FacadeCall("search_notes", host, note_contents, r)
                               /\ ai_sessions' = db_add_session(ai_sessions,
                                     AISessionModel("search", query,
                                         Some("Found " \o ToString(Len(results)) \o " results"),
                                         None, TRUE))
                               /\ response' = SearchResponse(results, Len(results), query)
                          ELSE /\ call' = FacadeCall("search_notes", host, note_contents, r)
                               /\ ai_sessions' = db_add_session(ai_sessions,
                                     AISessionModel("search", query, None, None, FALSE))
                               /\ response' = HTTPException(500, "Search failed: " \o r.error)

\* GET /ai/models
list_available_models ==
    \E host \in OllamaStates :
        LET r == ollama_service("list_models", <<>>, host)
        IN  /\ request' = [endpoint |-> "models"]
            /\ StoreUnchanged
            /\ UNCHANGED <<ai_sessions, invocations>>
            /\ call' = FacadeCall("list_models", host, <<>>, r)
            /\ response' = IF r.ok
                              THEN [status |-> 200, kind |-> "models", models |-> r.value]
                              ELSE HTTPException(503, "Failed to connect to Ollama: "
                                                      \o r.error)

\* GET /ai/health.  The handler has no except branch: an exception out of
\* the probe would leave it as the framework's 500.
check_ai_health ==
    \E host \in OllamaStates :
        LET r == ollama_service("check_health", <<>>, host)
        IN  /\ request' = [endpoint |-> "health"]
            /\ StoreUnchanged
            /\ UNCHANGED <<ai_sessions, invocations>>
            /\ call' = FacadeCall("check_health", host, <<>>, r)
            /\ response' = IF ~r.ok
                              THEN HTTPException(500, "Internal Server Error")
                           ELSE IF ~r.value
                              THEN HTTPException(503, "Ollama service is not available")
                           ELSE [status |-> 200, kind |-> "health",
                                 body |-> [status |-> "healthy", service |-> "ollama"]]

Init ==
    /\ workspaces = SampleWorkspaces
    /\ notes \in {[i \in D |-> SampleNotes[i]] : D \in SUBSET DOMAIN SampleNotes}
    /\ tags = SampleTags
    /\ files = <<>>
    /\ ai_sessions = <<>>
    /\ request = [endpoint |-> "none"]
    /\ response = [status |-> 0, kind |-> "none"]
    /\ call = NoCall
    /\ invocations = 0
    /\ store_requests = 0
    /\ workers = [w \in Workers |-> Idle]

Next ==
    \/ \E note_id \in NoteIdInputs, cleanup_type \in CleanupTypeInputs :
            cleanup_note(note_id, cleanup_type)
    \/ \E text \in Texts, style \in StyleInputs :
            rephrase_text(text, style)
    \/ \E message \in Texts, note_ids \in NoteIdListInputs :
            chat_with_notes(message, note_ids)
    \/ \E query \in Texts, workspace_ids \in WorkspaceIdListInputs,
          max_results \in MaxResultsInputs :
            search_notes(query, workspace_ids, max_results)
    \/ list_available_models
    \/ check_ai_health

Spec == Init /\ [][Next]_vars

(***************************************************************************)
(* The facade called directly                                              *)
(***************************************************************************)
\* The facade takes cleanup_type and style as plain strings: nothing checks
\* them before the template selection.
FacadeCleanupTypeInputs == {"grammar", "structure", "clarity", "full", "bogus", ""}

FacadeStyleInputs ==
    {"academic", "professional", "casual", "creative", "formal", "bogus", ""}

FacadeReturn(r) ==
    [status |-> 0, kind |-> IF r.ok THEN "returned" ELSE "raised",
     value |-> r.value, error |-> r.error]

\* await ollama_service.cleanup_text(text, cleanup_type)
OllamaService_cleanup_text_call(text, cleanup_type) ==
    \E host \in OllamaStates :
        LET r == ollama_service("cleanup_text", <<text, cleanup_type>>, host)
        IN  /\ request' = [endpoint |-> "facade.cleanup_text", text |-> text,
                           cleanup_type |-> cleanup_type]
            /\ call' = [method |-> "cleanup_text", host |-> host,
                        messages |-> ChatMessages(text, system_prompts(cleanup_type)),
                        chat_calls |-> r.chat_calls, raised |-> ~r.ok]
            /\ response' = FacadeReturn(r)
            /\ StoreUnchanged
            /\ UNCHANGED <<ai_sessions, invocations>>

\* await ollama_service.rephrase_text(text, style)
OllamaService_rephrase_text_call(text, style) ==
    \E host \in OllamaStates :
        LET r == ollama_service("rephrase_text", <<text, style>>, host)
        IN  /\ request' = [endpoint |-> "facade.rephrase_text", text |-> text,
                           style |-> style]
            /\ call' = [method |-> "rephrase_text", host |-> host,
                        messages |-> ChatMessages(text, style_prompts(style)),
                        chat_calls |-> r.chat_calls, raised |-> ~r.ok]
            /\ response' = FacadeReturn(r)
            /\ StoreUnchanged
            /\ UNCHANGED <<ai_sessions, invocations>>

NextFacade ==
    \/ \E text \in Texts, cleanup_type \in FacadeCleanupTypeInputs :
            OllamaService_cleanup_text_call(text, cleanup_type)
    \/ \E text \in Texts, style \in FacadeStyleInputs :
            OllamaService_rephrase_text_call(text, style)

SpecFacade == Init /\ [][NextFacade]_vars

(***************************************************************************)
(* Workspaces and notes: request schemas                                   *)
(***************************************************************************)
\* A JSON body is a function from the keys it carries to Optional values:
\* a key that is absent was not set, a key bound to None carried null.
HexDigits ==
    {"0", "1", "2", "3", "4", "5", "6", "7", "8", "9",
     "a", "b", "c", "d", "e", "f", "A", "B", "C", "D", "E", "F"}

\* pattern=r"^#[0-9A-Fa-f]{6}$"
HexColor(color) ==
    /\ Len(color) = 7
    /\ SubSeq(color, 1, 1) = "#"
    /\ \A i \in 2..7 : SubSeq(color, i, i) \in HexDigits

WorkspaceFields == {"name", "description", "color"}

WorkspaceCreate(body) ==
    /\ DOMAIN body \subseteq WorkspaceFields
    /\ "name" \in DOMAIN body
    /\ body.name # None
    /\ Len(body.name[1]) >= 1
    /\ Len(body.name[1]) <= 255
    /\ "color" \in DOMAIN body => (body.color # None /\ HexColor(body.color[1]))

WorkspaceUpdate(body) ==
    /\ DOMAIN body \subseteq WorkspaceFields
    /\ ("name" \in DOMAIN body /\ body.name # None)
          => (Len(body.name[1]) >= 1 /\ Len(body.name[1]) <= 255)
    /\ ("color" \in DOMAIN body /\ body.color # None) => HexColor(body.color[1])

NoteFields == {"title", "content", "workspace_id", "tag_ids"}

NoteCreate(body) ==
    /\ DOMAIN body \subseteq NoteFields
    /\ {"title", "content", "workspace_id"} \subseteq DOMAIN body
    /\ body.title # None
    /\ Len(body.title[1]) >= 1
    /\ Len(body.title[1]) <= 500
    /\ body.content # None
    /\ Len(body.content[1]) >= 1
    /\ body.workspace_id # None
    /\ "tag_ids" \in DOMAIN body => body.tag_ids # None

NoteUpdate(body) ==
    /\ DOMAIN body \subseteq NoteFields
    /\ ("title" \in DOMAIN body /\ body.title # None)
          => (Len(body.title[1]) >= 1 /\ Len(body.title[1]) <= 500)
    /\ ("content" \in DOMAIN body /\ body.content # None)
          => Len(body.content[1]) >= 1

\* workspace.model_dump(): every field, the unset ones at their defaults.
WorkspaceCreate_model_dump(body) ==
    [name |-> body.name[1],
     description |-> IF "description" \in DOMAIN body THEN body.description ELSE None,
     color |-> IF "color" \in DOMAIN body THEN body.color ELSE Some("#3B82F6")]

\* Mutant: a dump that does not leave the unset fields out.
model_dump_with_unset(fields, body, exclude) ==
    [f \in fields \ exclude |-> IF f \in DOMAIN body THEN body[f] ELSE None]

\* update.model_dump(exclude_unset=True, exclude=...)
model_dump_exclude_unset(fields, body, exclude) ==
    [f \in (fields \cap DOMAIN body) \ exclude |-> body[f]]

(***************************************************************************)
(* Workspaces and notes: the tables                                        *)
(***************************************************************************)
\* Mutant: a lookup that hands back a blank workspace instead of nothing.
query_workspace_first_or_blank(rows, workspace_id) ==
    IF workspace_id \in DOMAIN rows THEN Some(rows[workspace_id])
    ELSE Some([name |-> "", description |-> None, color |-> None])

\* db.query(WorkspaceModel).filter(WorkspaceModel.id == workspace_id).first()
query_workspace_first(rows, workspace_id) ==
    IF workspace_id \in DOMAIN rows THEN Some(rows[workspace_id]) ELSE None

\* Mutant: a name lookup that finds nothing.
query_workspace_by_name_blind(rows, name) == None

\* db.query(WorkspaceModel).filter(WorkspaceModel.name == name).first()
query_workspace_by_name(rows, name) ==
    IF \E i \in DOMAIN rows : rows[i].name = name
        THEN Some(CHOOSE i \in DOMAIN rows :
                    /\ rows[i].name = name
                    /\ \A j \in DOMAIN rows : rows[j].name = name => i <= j)
        ELSE None

\* The id an INTEGER PRIMARY KEY column gives a new row: one past the
\* largest id in the table.
NextId(rows) ==
    IF DOMAIN rows = {} THEN 1
    ELSE 1 + CHOOSE i \in DOMAIN rows : \A j \in DOMAIN rows : j <= i

NotNullColumns == {"name", "title", "content", "workspace_id"}

\* for field, value in update_data.items(): setattr(row, field, value)
setattrs(row, update_data) ==
    [f \in DOMAIN row |->
        IF f \notin DOMAIN update_data THEN row[f]
        ELSE IF f \in NotNullColumns /\ update_data[f] # None THEN update_data[f][1]
        ELSE update_data[f]]

\* What makes db.commit() raise IntegrityError: NULL in a NOT NULL column,
\* or two workspaces under one name (unique=True).
NullViolation(update_data) ==
    \E f \in DOMAIN update_data \cap NotNullColumns : update_data[f] = None

UniqueViolation(rows) ==
    \E i, j \in DOMAIN rows : i # j /\ rows[i].name = rows[j].name

\* Whether the connection enforces foreign keys.  SQLite does so only after
\* PRAGMA foreign_keys=ON; the engine of the tests is created without it and
\* the module that creates the served engine is not part of the sources read.
ForeignKeys == BOOLEAN

\* ForeignKey("workspaces.id"): a note row that names no workspace row.
ForeignKeyViolation(workspace_rows, note) == note.workspace_id \notin DOMAIN workspace_rows

\* Mutant: a workspace deleted without its notes.
cascade_none(rows, workspace_id) == rows

\* cascade="all, delete-orphan": the notes left once a workspace is deleted.
cascade_delete_orphan(rows, workspace_id) ==
    [i \in {j \in DOMAIN rows : rows[j].workspace_id # workspace_id} |-> rows[i]]

\* db.query(TagModel).filter(TagModel.id.in_(tag_ids)).all()
query_tags_in(rows, tag_ids) == {i \in DOMAIN rows : i \in Range(tag_ids)}

(***************************************************************************)
(* Workspaces and notes: the notes directory                               *)
(***************************************************************************)
SafeTitleChars ==
    {"a", "b", "c", "d", "e", "f", "g", "h", "i", "j", "k", "l", "m",
     "n", "o", "p", "q", "r", "s", "t", "u", "v", "w", "x", "y", "z",
     "A", "B", "C", "D", "E", "F", "G", "H", "I", "J", "K", "L", "M",
     "N", "O", "P", "Q", "R", "S", "T", "U", "V", "W", "X", "Y", "Z",
     "0", "1", "2", "3", "4", "5", "6", "7", "8", "9", " ", "-", "_"}

\* "".join(c for c in title if c.isalnum() or c in (' ', '-', '_'))
RECURSIVE PyKeepSafe(_)
PyKeepSafe(title) ==
    IF Len(title) = 0 THEN ""
    ELSE (IF SubSeq(title, 1, 1) \in SafeTitleChars THEN SubSeq(title, 1, 1) ELSE "")
         \o PyKeepSafe(SubSeq(title, 2, Len(title)))

\* s.rstrip(), for a string whose only whitespace is the space
RECURSIVE PyRstrip(_)
PyRstrip(str) ==
    IF Len(str) > 0 /\ SubSeq(str, Len(str), Len(str)) = " "
        THEN PyRstrip(SubSeq(str, 1, Len(str) - 1))
        ELSE str

\* s.replace(' ', '_')
RECURSIVE PyReplaceSpaces(_)
PyReplaceSpaces(str) ==
    IF Len(str) = 0 THEN ""
    ELSE (IF SubSeq(str, 1, 1) = " " THEN "_" ELSE SubSeq(str, 1, 1))
         \o PyReplaceSpaces(SubSeq(str, 2, Len(str)))

safe_title(title) == PyReplaceSpaces(PyRstrip(PyKeepSafe(title)))

\* The path _save_note_to_file writes and returns, relative to the notes
\* directory, and the text it writes there.
note_file_path(note_id, note) ==
    "workspace_" \o ToString(note.workspace_id) \o "/"
    \o ToString(note_id) \o "_" \o safe_title(note.title) \o ".md"

note_file_text(note) == "# " \o note.title \o "\n\n" \o note.content

\* open(file_path, 'w').write(...): the file is created or overwritten.
save_note_to_file(disk, note_id, note) ==
    [p \in DOMAIN disk \cup {note_file_path(note_id, note)} |->
        IF p = note_file_path(note_id, note) THEN note_file_text(note) ELSE disk[p]]

\* The note id a file name starts with: in workspace_{w}/{id}_{safe_title}.md
\* the text between the slash and the first underscore after it.
PyFind(str, char, start) ==
    CHOOSE k \in start..Len(str) :
        /\ SubSeq(str, k, k) = char
        /\ \A j \in start..(k - 1) : SubSeq(str, j, j) # char

file_note_id(path) ==
    LET slash == PyFind(path, "/", 1)
    IN  SubSeq(path, slash + 1, PyFind(path, "_", slash + 1) - 1)

\* if note.file_path: if os.path.exists(full_path): os.remove(full_path)
remove_note_file(disk, file_path) ==
    IF file_path # None /\ file_path[1] # ""
        THEN [p \in DOMAIN disk \ {file_path[1]} |-> disk[p]]
        ELSE disk

(***************************************************************************)
(* Workspaces and notes: handlers                                          *)
(***************************************************************************)
WorkspaceResponse(status_code, workspace_id, row) ==
    [status |-> status_code, kind |-> "workspace", id |-> workspace_id, row |-> row]

NoteResponse(status_code, note_id, row) ==
    [status |-> status_code, kind |-> "note", id |-> note_id, row |-> row]

NoContent == [status |-> 204, kind |-> "empty"]

\* Mutant: a workspace or note request that clears the AI session log.
StoreHandled_purging_sessions ==
    /\ store_requests < MaxStoreRequests
    /\ store_requests' = store_requests + 1
    /\ call' = NoCall
    /\ ai_sessions' = <<>>
    /\ UNCHANGED <<invocations, tags, workers>>

\* A workspace or note request: no facade call, no AI session, no tag change.
StoreHandled ==
    /\ store_requests < MaxStoreRequests
    /\ store_requests' = store_requests + 1
    /\ call' = NoCall
    /\ UNCHANGED <<ai_sessions, invocations, tags, workers>>

\* POST /workspaces/
create_workspace(body) ==
    LET existing == query_workspace_by_name(workspaces, body.name[1])
        db_workspace == WorkspaceCreate_model_dump(body)
        id == NextId(workspaces)
        rows == (id :> db_workspace) @@ workspaces
    IN  /\ StoreHandled
        /\ request' = [endpoint |-> "create_workspace", body |-> body]
        /\ UNCHANGED <<notes, files>>
        /\ IF ~WorkspaceCreate(body)
              THEN response' = RequestValidationError /\ UNCHANGED workspaces
           ELSE IF existing # None
              THEN /\ response' = HTTPException(400, "Workspace with this name already exists")
                   /\ UNCHANGED workspaces
           ELSE IF UniqueViolation(rows)
              THEN response' = InternalServerError /\ UNCHANGED workspaces
           ELSE /\ workspaces' = rows
                /\ response' = WorkspaceResponse(201, id, db_workspace)

\* The body of GET /workspaces/{workspace_id}: the workspace with its notes.
get_workspace_response(workspace_rows, note_rows, workspace_id) ==
    LET workspace == query_workspace_first(workspace_rows, workspace_id)
    IN  IF workspace = None
            THEN HTTPException(404, "Workspace not found")
            ELSE [status |-> 200, kind |-> "workspace", id |-> workspace_id,
                  row |-> workspace[1],
                  notes |-> {i \in DOMAIN note_rows :
                                note_rows[i].workspace_id = workspace_id}]

\* GET /workspaces/{workspace_id}
get_workspace(workspace_id) ==
    /\ request' = [endpoint |-> "get_workspace", workspace_id |-> workspace_id]
    /\ response' = get_workspace_response(workspaces, notes, workspace_id)
    /\ call' = NoCall
    /\ UNCHANGED <<workspaces, notes, tags, files, ai_sessions, invocations,
                   store_requests, workers>>

\* PUT /workspaces/{workspace_id}
update_workspace(workspace_id, body) ==
    LET workspace == query_workspace_first(workspaces, workspace_id)
        renamed == /\ "name" \in DOMAIN body
                   /\ body.name # None
                   /\ body.name[1] # ""
                   /\ body.name[1] # workspace[1].name
        update_data == model_dump_exclude_unset(WorkspaceFields, body, {})
        updated == setattrs(workspace[1], update_data)
        rows == [workspaces EXCEPT ![workspace_id] = updated]
    IN  /\ StoreHandled
        /\ request' = [endpoint |-> "update_workspace", workspace_id |-> workspace_id,
                       body |-> body]
        /\ UNCHANGED <<notes, files>>
        /\ IF ~WorkspaceUpdate(body)
              THEN response' = RequestValidationError /\ UNCHANGED workspaces
           ELSE IF workspace = None
              THEN /\ response' = HTTPException(404, "Workspace not found")
                   /\ UNCHANGED workspaces
           ELSE IF renamed /\ query_workspace_by_name(workspaces, body.name[1]) # None
              THEN /\ response' = HTTPException(400, "Workspace with this name already exists")
                   /\ UNCHANGED workspaces
           ELSE IF NullViolation(update_data) \/ UniqueViolation(rows)
              THEN response' = InternalServerError /\ UNCHANGED workspaces
           ELSE /\ workspaces' = rows
                /\ response' = WorkspaceResponse(200, workspace_id, updated)

\* DELETE /workspaces/{workspace_id}
delete_workspace(workspace_id) ==
    LET workspace == query_workspace_first(workspaces, workspace_id)
    IN  /\ StoreHandled
        /\ request' = [endpoint |-> "delete_workspace", workspace_id |-> workspace_id]
        /\ UNCHANGED files
        /\ IF workspace = None
              THEN /\ response' = HTTPException(404, "Workspace not found")
                   /\ UNCHANGED <<workspaces, notes>>
              ELSE /\ workspaces' = [i \in DOMAIN workspaces \ {workspace_id} |->
                                        workspaces[i]]
                   /\ notes' = cascade_delete_orphan(notes, workspace_id)
                   /\ response' = NoContent

\* POST /notes/
create_note(body) ==
    LET workspace == query_workspace_first(workspaces, body.workspace_id[1])
        id == NextId(notes)
        db_note == [title |-> body.title[1], content |-> body.content[1],
                    workspace_id |-> body.workspace_id[1],
                    file_path |-> None, tags |-> {}]
        tag_ids == IF "tag_ids" \in DOMAIN body THEN body.tag_ids[1] ELSE <<>>
        saved == [db_note EXCEPT
                    !.file_path = Some(note_file_path(id, db_note)),
                    !.tags = IF Len(tag_ids) > 0 THEN query_tags_in(tags, tag_ids)
                             ELSE {}]
    IN  /\ StoreHandled
        /\ request' = [endpoint |-> "create_note", body |-> body]
        /\ UNCHANGED workspaces
        /\ IF ~NoteCreate(body)
              THEN response' = RequestValidationError /\ UNCHANGED <<notes, files>>
           ELSE IF workspace = None
              THEN /\ response' = HTTPException(400, "Workspace not found")
                   /\ UNCHANGED <<notes, files>>
           ELSE /\ notes' = (id :> saved) @@ notes
                /\ files' = save_note_to_file(files, id, db_note)
                /\ response' = NoteResponse(201, id, saved)

\* PUT /notes/{note_id}
update_note(note_id, body) ==
    LET note == query_note_first(notes, note_id)
        moved == /\ "workspace_id" \in DOMAIN body
                 /\ body.workspace_id # None
                 /\ body.workspace_id[1] # 0
                 /\ body.workspace_id[1] # note[1].workspace_id
        update_data == model_dump_exclude_unset(NoteFields, body, {"tag_ids"})
        with_fields == setattrs(note[1], update_data)
        with_tags == IF "tag_ids" \in DOMAIN body /\ body.tag_ids # None
                        THEN [with_fields EXCEPT
                                !.tags = query_tags_in(tags, body.tag_ids[1])]
                        ELSE with_fields
        saved == [with_tags EXCEPT
                    !.file_path = Some(note_file_path(note_id, with_tags))]
    IN  /\ StoreHandled
        /\ request' = [endpoint |-> "update_note", note_id |-> note_id, body |-> body]
        /\ UNCHANGED workspaces
        /\ IF ~NoteUpdate(body)
              THEN response' = RequestValidationError /\ UNCHANGED <<notes, files>>
           ELSE IF note = None
              THEN /\ response' = HTTPException(404, "Note not found")
                   /\ UNCHANGED <<notes, files>>
           ELSE IF moved /\ query_workspace_first(workspaces, body.workspace_id[1]) = None
              THEN /\ response' = HTTPException(400, "Workspace not found")
                   /\ UNCHANGED <<notes, files>>
           ELSE IF NullViolation(update_data)
              THEN response' = InternalServerError /\ UNCHANGED <<notes, files>>
           ELSE \E foreign_keys \in ForeignKeys :
                IF foreign_keys /\ ForeignKeyViolation(workspaces, with_fields)
                   THEN response' = InternalServerError /\ UNCHANGED <<notes, files>>
                   ELSE /\ notes' = [notes EXCEPT ![note_id] = saved]
                        /\ files' = save_note_to_file(files, note_id, with_tags)
                        /\ response' = NoteResponse(200, note_id, saved)

\* DELETE /notes/{note_id}
delete_note(note_id) ==
    LET note == query_note_first(notes, note_id)
    IN  /\ StoreHandled
        /\ request' = [endpoint |-> "delete_note", note_id |-> note_id]
        /\ UNCHANGED workspaces
        /\ IF note = None
              THEN /\ response' = HTTPException(404, "Note not found")
                   /\ UNCHANGED <<notes, files>>
              ELSE /\ files' = remove_note_file(files, note[1].file_path)
                   /\ notes' = [i \in DOMAIN notes \ {note_id} |-> notes[i]]
                   /\ response' = NoContent

WorkspaceCreateInputs ==
    {[name |-> Some("CS")],
     [name |-> Some("Bio"), description |-> Some("Cells")],
     [name |-> Some("")]}

WorkspaceUpdateInputs ==
    {[name |-> Some("Math")],
     [name |-> Some("Bio")],
     [description |-> Some("Proofs")],
     [name |-> Some("CS"), color |-> Some("#10B981")],
     [name |-> None]}

WorkspaceIdInputs == {1, 9}

NoteCreateInputs ==
    {[title |-> Some("My note!"), content |-> Some("c"), workspace_id |-> Some(1),
      tag_ids |-> Some(<<1>>)],
     [title |-> Some("My note!"), content |-> Some("c"), workspace_id |-> Some(9)],
     [title |-> Some(""), content |-> Some("c"), workspace_id |-> Some(1)]}

NoteUpdateInputs ==
    {[title |-> Some("A b")],
     [title |-> Some("T")],
     [content |-> Some("d")],
     [workspace_id |-> Some(2)],
     [workspace_id |-> Some(9)],
     [tag_ids |-> Some(<<1>>)],
     [title |-> Some("Z"), tag_ids |-> Some(<<>>)],
     [title |-> None],
     [workspace_id |-> Some(0)]}

NextStore ==
    \/ \E body \in WorkspaceCreateInputs : create_workspace(body)
    \/ \E workspace_id \in WorkspaceIdInputs : get_workspace(workspace_id)
    \/ \E workspace_id \in WorkspaceIdInputs, body \in WorkspaceUpdateInputs :
            update_workspace(workspace_id, body)
    \/ \E workspace_id \in WorkspaceIdInputs : delete_workspace(workspace_id)
    \/ \E body \in NoteCreateInputs : create_note(body)
    \/ \E note_id \in NoteIdInputs, body \in NoteUpdateInputs : update_note(note_id, body)
    \/ \E note_id \in NoteIdInputs : delete_note(note_id)

SpecStore == Init /\ [][NextStore]_vars

(***************************************************************************)
(* Workspace creation and note update in two worker processes.  Within one *)
(* process a handler runs to its end, for it awaits nothing; another       *)
(* process can commit between a handler's queries and its db.commit().     *)
(***************************************************************************)
InFlight == {w \in Workers : workers[w].pc # "idle"}

\* A worker takes a request when it is idle.
Accepted(w) ==
    /\ workers[w] = Idle
    /\ store_requests + Cardinality(InFlight) < MaxStoreRequests

\* A worker answers its request.
Finished(req, resp) ==
    /\ request' = req
    /\ response' = resp
    /\ store_requests' = store_requests + 1

WorkerFrame ==
    /\ call' = NoCall
    /\ UNCHANGED <<ai_sessions, invocations, tags>>

\* POST /workspaces/ up to the lookup of the name.
create_workspace_begin(w, body) ==
    LET existing == query_workspace_by_name(workspaces, body.name[1])
        req == [endpoint |-> "create_workspace", body |-> body]
    IN  /\ Accepted(w)
        /\ WorkerFrame
        /\ UNCHANGED <<workspaces, notes, files>>
        /\ IF ~WorkspaceCreate(body)
              THEN Finished(req, RequestValidationError) /\ UNCHANGED workers
           ELSE IF existing # None
              THEN /\ Finished(req, HTTPException(400,
                                   "Workspace with this name already exists"))
                   /\ UNCHANGED workers
           ELSE /\ workers' = [workers EXCEPT ![w] = [pc |-> "checked", request |-> req]]
                /\ UNCHANGED <<request, response, store_requests>>

\* POST /workspaces/ from db.add on: the INSERT, under the store's unique
\* constraint on the name.
create_workspace_commit(w) ==
    /\ workers[w].pc = "checked"
    /\ LET req == workers[w].request
           db_workspace == WorkspaceCreate_model_dump(req.body)
           id == NextId(workspaces)
           rows == (id :> db_workspace) @@ workspaces
       IN  /\ WorkerFrame
           /\ UNCHANGED <<notes, files>>
           /\ workers' = [workers EXCEPT ![w] = Idle]
           /\ IF UniqueViolation(rows)
                 THEN Finished(req, InternalServerError) /\ UNCHANGED workspaces
                 ELSE /\ workspaces' = rows
                      /\ Finished(req, WorkspaceResponse(201, id, db_workspace))

\* PUT /notes/{note_id} up to the workspace check: the session loads the note.
update_note_begin(w, note_id, body) ==
    LET note == query_note_first(notes, note_id)
        moved == /\ "workspace_id" \in DOMAIN body
                 /\ body.workspace_id # None
                 /\ body.workspace_id[1] # 0
                 /\ body.workspace_id[1] # note[1].workspace_id
        req == [endpoint |-> "update_note", note_id |-> note_id, body |-> body]
    IN  /\ Accepted(w)
        /\ WorkerFrame
        /\ UNCHANGED <<workspaces, notes, files>>
        /\ IF ~NoteUpdate(body)
              THEN Finished(req, RequestValidationError) /\ UNCHANGED workers
           ELSE IF note = None
              THEN Finished(req, HTTPException(404, "Note not found")) /\ UNCHANGED workers
           ELSE IF moved /\ query_workspace_first(workspaces, body.workspace_id[1]) = None
              THEN /\ Finished(req, HTTPException(400, "Workspace not found"))
                   /\ UNCHANGED workers
           ELSE /\ workers' = [workers EXCEPT ![w] =
                                  [pc |-> "loaded", request |-> req,
                                   loaded |-> note[1], raced |-> {}]]
                /\ UNCHANGED <<request, response, store_requests>>

\* The row after the session's flush and db.refresh: the unit of work writes
\* the attributes whose value differs from the one it loaded, and the tag
\* links it added or removed; every other column keeps what the store holds.
flush_and_refresh(current, loaded, in_session) ==
    [f \in DOMAIN current |->
        IF in_session[f] = loaded[f] THEN current[f]
        ELSE IF f = "tags"
            THEN (current.tags \ (loaded.tags \ in_session.tags))
                     \cup (in_session.tags \ loaded.tags)
        ELSE in_session[f]]

\* PUT /notes/{note_id} from the setattr loop on: the UPDATE, the refresh and
\* the file.  raced collects, for the requests still in flight on the same
\* note, the fields this request wrote.
update_note_commit(w) ==
    /\ workers[w].pc = "loaded"
    /\ LET req == workers[w].request
           body == req.body
           note_id == req.note_id
           loaded == workers[w].loaded
           update_data == model_dump_exclude_unset(NoteFields, body, {"tag_ids"})
           with_fields == setattrs(loaded, update_data)
           with_tags == IF "tag_ids" \in DOMAIN body /\ body.tag_ids # None
                           THEN [with_fields EXCEPT
                                   !.tags = query_tags_in(tags, body.tag_ids[1])]
                           ELSE with_fields
           row == flush_and_refresh(notes[note_id], loaded, with_tags)
           saved == [row EXCEPT !.file_path = Some(note_file_path(note_id, row))]
       IN  /\ WorkerFrame
           /\ UNCHANGED workspaces
           /\ IF NullViolation(update_data)
                 THEN /\ Finished(req, InternalServerError)
                      /\ workers' = [workers EXCEPT ![w] = Idle]
                      /\ UNCHANGED <<notes, files>>
              ELSE \E foreign_keys \in ForeignKeys :
                   IF foreign_keys /\ ForeignKeyViolation(workspaces, row)
                      THEN /\ Finished(req, InternalServerError)
                           /\ workers' = [workers EXCEPT ![w] = Idle]
                           /\ UNCHANGED <<notes, files>>
                      ELSE /\ notes' = [notes EXCEPT ![note_id] = saved]
                           /\ files' = save_note_to_file(files, note_id, row)
                           /\ Finished(req, NoteResponse(200, note_id, saved))
                           /\ workers' =
                                 [v \in Workers |->
                                     IF v = w THEN Idle
                                     ELSE IF /\ workers[v].pc = "loaded"
                                             /\ workers[v].request.note_id = note_id
                                        THEN [workers[v] EXCEPT
                                                !.raced = @ \cup DOMAIN body]
                                     ELSE workers[v]]

WorkerCreateInputs ==
    {[name |-> Some("Bio")],
     [name |-> Some("CS")],
     [name |-> Some("Chem"), description |-> Some("Labs")]}

WorkerUpdateInputs ==
    {[title |-> Some("A")],
     [title |-> Some("T")],
     [content |-> Some("d")],
     [title |-> Some("T"), content |-> Some("e")]}

NextWorkers ==
    \/ \E w \in Workers, body \in WorkerCreateInputs : create_workspace_begin(w, body)
    \/ \E w \in Workers : create_workspace_commit(w)
    \/ \E w \in Workers, note_id \in NoteIdInputs, body \in WorkerUpdateInputs :
          update_note_begin(w, note_id, body)
    \/ \E w \in Workers : update_note_commit(w)

SpecWorkers == Init /\ [][NextWorkers]_vars

(***************************************************************************)
(* Envelope requests over a store whose commits may fail                   *)
(***************************************************************************)
NextUnreliable ==
    \/ \E note_id \in NoteIdInputs, db \in CommitOutcomes :
          cleanup_note_with(note_id, "grammar", db)
    \/ \E text \in Texts, db \in CommitOutcomes :
          rephrase_text_with(text, "formal", db)
    \/ \E db \in CommitOutcomes :
          chat_with_notes_with("hi", Some(<<1, 2>>), db)

SpecUnreliable == Init /\ [][NextUnreliable]_vars

(***************************************************************************)
(* AI requests among deletions                                             *)
(***************************************************************************)
NextAudit ==
    \/ \E note_id \in NoteIdInputs : cleanup_note(note_id, "grammar")
    \/ chat_with_notes("hi", Some(<<1, 2>>))
    \/ \E note_id \in NoteIdInputs : delete_note(note_id)
    \/ \E workspace_id \in WorkspaceIdInputs : delete_workspace(workspace_id)

SpecAudit == Init /\ [][NextAudit]_vars

(***************************************************************************)
(* Simple search (GET /search/simple)                                      *)
(***************************************************************************)
AsciiUpper == "ABCDEFGHIJKLMNOPQRSTUVWXYZ"
AsciiLower == "abcdefghijklmnopqrstuvwxyz"

\* str.lower() of one character, over the ASCII letters.
PyLowerChar ==
    [c \in {SubSeq(AsciiUpper, i, i) : i \in 1..26} |->
        LET i == CHOOSE k \in 1..26 : SubSeq(AsciiUpper, k, k) = c
        IN  SubSeq(AsciiLower, i, i)]

\* str.lower()
RECURSIVE PyLower(_)
PyLower(str) ==
    IF str = "" THEN ""
    ELSE IF Len(str) = 1
        THEN IF str \in DOMAIN PyLowerChar THEN PyLowerChar[str] ELSE str
    ELSE LET half == Len(str) \div 2
         IN  PyLower(SubSeq(str, 1, half)) \o PyLower(SubSeq(str, half + 1, Len(str)))

\* str.find(sub): the index, from 0, of the first occurrence of sub, or -1.
PyFindSub(str, sub) ==
    LET hits == {i \in 0..(Len(str) - Len(sub)) :
                    SubSeq(str, i + 1, i + Len(sub)) = sub}
    IN  IF hits = {} THEN -1
        ELSE CHOOSE i \in hits : \A j \in hits : i <= j

\* str[start:end] for 0 <= start
PySlice(str, start, end) == SubSeq(str, start + 1, end)

\* SQL's LIKE on text already lowered: % stands for any run of characters,
\* _ for any one character.
RECURSIVE Like(_, _)
Like(str, pattern) ==
    IF pattern = "" THEN str = ""
    ELSE IF pattern = "%" THEN TRUE
    ELSE LET p == SubSeq(pattern, 1, 1)
             rest == SubSeq(pattern, 2, Len(pattern))
         IN  IF p = "%"
                THEN \E i \in 0..Len(str) : Like(SubSeq(str, i + 1, Len(str)), rest)
             ELSE /\ str # ""
                  /\ p = "_" \/ p = SubSeq(str, 1, 1)
                  /\ Like(SubSeq(str, 2, Len(str)), rest)

\* column.ilike(pattern): lower(column) LIKE lower(pattern)
ilike(column, pattern) == Like(PyLower(column), PyLower(pattern))

\* Mutant: the snippet is always the head of the content.
snippet_head_only(content, q) == PyPrefix(content, 200) \o "..."

\* The snippet of one result: the head of the content, or a window around
\* the first occurrence of the query in the content.
snippet_of(content, q) ==
    LET content_lower == PyLower(content)
        query_lower == PyLower(q)
        start_pos == PyFindSub(content_lower, query_lower)
        snippet_start == IF start_pos - 50 > 0 THEN start_pos - 50 ELSE 0
        snippet_end == IF Len(content) < start_pos + 150
                          THEN Len(content) ELSE start_pos + 150
    IN  IF start_pos # -1
           THEN "..." \o PySlice(content, snippet_start, snippet_end) \o "..."
           ELSE PyPrefix(content, 200) \o "..."

\* query.limit(limit).all(): rows in rowid order; SQLite reads a negative
\* LIMIT as no limit.
query_limit_all(selected, limit) ==
    LET rows == query_all(selected)
    IN  IF limit < 0 \/ limit >= Len(rows) THEN rows ELSE SubSeq(rows, 1, limit)

\* GET /search/simple?q=..&workspace_id=..&limit=..
simple_search(q, workspace_id, limit) ==
    LET search_filter == "%" \o q \o "%"
        selected == {i \in DOMAIN notes :
                        /\ (workspace_id # None /\ workspace_id[1] # 0)
                              => notes[i].workspace_id = workspace_id[1]
                        /\ \/ ilike(notes[i].title, search_filter)
                           \/ ilike(notes[i].content, search_filter)}
        rows == query_limit_all(selected, limit)
        results == [k \in 1..Len(rows) |->
                       [note_id |-> rows[k],
                        note_title |-> notes[rows[k]].title,
                        relevance_score |-> 100,
                        snippet |-> snippet_of(notes[rows[k]].content, q),
                        workspace_name |-> workspaces[notes[rows[k]].workspace_id].name]]
    IN  /\ request' = [endpoint |-> "simple_search", q |-> q,
                       workspace_id |-> workspace_id, limit |-> limit]
        /\ response' = SearchResponse(results, Len(results), q)
        /\ call' = NoCall
        /\ UNCHANGED <<workspaces, notes, tags, files, ai_sessions, invocations,
                       store_requests, workers>>

\* n copies of str
RECURSIVE Repeat(_, _)
Repeat(str, n) == IF n = 0 THEN "" ELSE str \o Repeat(str, n - 1)

\* Notes long enough for the snippet window to cut on both sides, for it to
\* be cut by the ends of the content, and for a match in the title alone.
LongNotes ==
    <<[title |-> "Plan",
       content |-> Repeat("lorem ", 10) \o "A Needle in " \o Repeat("ipsum ", 30),
       workspace_id |-> 1, file_path |-> None, tags |-> {}],
      [title |-> "Needle title", content |-> Repeat("dolor sit ", 25),
       workspace_id |-> 2, file_path |-> None, tags |-> {}],
      [title |-> "Short", content |-> "needle first, NEEDLE again",
       workspace_id |-> 1, file_path |-> None, tags |-> {}]>>

QueryInputs == {"needle", "NEEDLE", "title", "e_d", "zzz"}

OptionalWorkspaceIdInputs == {None, Some(0), Some(1)}

LimitInputs == {-1, 1, 10}

InitSimple ==
    /\ workspaces = SampleWorkspaces
    /\ notes \in {[i \in D |-> LongNotes[i]] : D \in {1..n : n \in 0..3}}
    /\ tags = SampleTags
    /\ files = <<>>
    /\ ai_sessions = <<>>
    /\ request = [endpoint |-> "none"]
    /\ response = [status |-> 0, kind |-> "none"]
    /\ call = NoCall
    /\ invocations = 0
    /\ store_requests = 0
    /\ workers = [w \in Workers |-> Idle]

NextSimple ==
    \E q \in QueryInputs, workspace_id \in OptionalWorkspaceIdInputs,
       limit \in LimitInputs : simple_search(q, workspace_id, limit)

SpecSimple == InitSimple /\ [][NextSimple]_vars

(***************************************************************************)
(* Claims                                                                  *)
(***************************************************************************)
LastSession == ai_sessions[Len(ai_sessions)]

\* The step appended exactly one record to the AI session log.
OneSessionAdded ==
    /\ Len(ai_sessions') = Len(ai_sessions) + 1
    /\ SubSeq(ai_sessions', 1, Len(ai_sessions)) = ai_sessions

EnvelopeEndpoints == {"cleanup", "rephrase", "chat"}

\* The notes an AI search request reads: all, or those of the listed workspaces.
SearchedNotes ==
    IF Truthy(request.workspace_ids)
        THEN {i \in DOMAIN notes : notes[i].workspace_id \in Range(request.workspace_ids[1])}
        ELSE DOMAIN notes

\* The last request ran its handler: it passed validation and, for cleanup,
\* its note exists.
Invoked ==
    /\ request.endpoint \in EnvelopeEndpoints \cup {"search"}
    /\ response.status \notin {422, 404}

\* C1 (as claimed): after any sequence of requests the number of audit
\* records equals the number of AI invocations (requests that pass validation
\* and, for cleanup, whose note exists).
C1_RecordsEqualInvocations == Len(ai_sessions) = invocations

\* C1 (amended): every cleanup, rephrase or chat invocation, and every AI
\* search invocation that selects at least one note, appends exactly one
\* record, on success and on failure; an AI search that selects no note, and
\* every request that is rejected, appends none.
C1_OneRecordPerInvocationButEmptySearch ==
    [][IF Invoked' /\ ~(request'.endpoint = "search" /\ SearchedNotes' = {})
          THEN OneSessionAdded
          ELSE ai_sessions' = ai_sessions]_vars

\* C1 witness: two invocations, one that succeeded and one that failed, each
\* with its own record.
C1_Witness ==
    /\ invocations = 2
    /\ Len(ai_sessions) = 2
    /\ ai_sessions[1].success
    /\ ~ai_sessions[2].success

\* C2: when the generation client fails during a cleanup, rephrase or chat
\* request, the handler answers 200 with an envelope of success=false that
\* carries the error text, and appends one audit record with success=false.
C2_ClientFailureIsEnveloped ==
    [][(request'.endpoint \in EnvelopeEndpoints /\ call'.host \in {"response_error", "unreachable"})
          => /\ response'.status = 200
             /\ response'.kind = "envelope"
             /\ response'.success = FALSE
             /\ response'.response = None
             /\ response'.error # None
             /\ Len(response'.error[1]) > 0
             /\ OneSessionAdded
             /\ LastSession'.success = FALSE
             /\ LastSession'.session_type = request'.endpoint]_vars

\* C2 witness: a rephrase request during which the client was called and
\* failed to reach the host.
C2_Witness ==
    /\ request.endpoint = "rephrase"
    /\ call.host = "unreachable"
    /\ call.chat_calls = 1
    /\ response.kind = "envelope"
    /\ response.error = Some("Failed to generate text: Connection refused")

\* C3 (as claimed): a chat request with a non-empty message, issued while
\* the generation client answers, returns success=true with the generated
\* text and appends a "chat" record with success=true, with or without notes.
C3_ChatSucceeds ==
    (request.endpoint = "chat" /\ Len(request.message) >= 1 /\ call.host = "ok")
        => /\ response.kind = "envelope"
           /\ response.success = TRUE
           /\ response.response = Some("LLM: " \o request.message)
           /\ Len(ai_sessions) >= 1
           /\ LastSession.session_type = "chat"
           /\ LastSession.success = TRUE

\* C4: the success flag of the audit record a cleanup, rephrase or chat
\* request appends equals the success field of the envelope it returns.
C4_RecordMatchesEnvelope ==
    [][(request'.endpoint \in EnvelopeEndpoints /\ response'.kind = "envelope")
          => /\ OneSessionAdded
             /\ LastSession'.session_type = request'.endpoint
             /\ LastSession'.success = response'.success]_vars

\* C4 witness: a successful request followed by a failed one, the envelope
\* of the second reporting the failure.
C4_Witness ==
    /\ Len(ai_sessions) = 2
    /\ ai_sessions[1].success
    /\ ~ai_sessions[2].success
    /\ request.endpoint = "cleanup"
    /\ response.kind = "envelope"
    /\ response.success = FALSE

\* C5: a cleanup request whose note_id names no stored note never reaches
\* the facade or the generation client and leaves the AI session log as it
\* was; it is answered 404 (422 if its cleanup_type is outside the enumeration).
C5_CleanupMissingNote ==
    [][(request'.endpoint = "cleanup" /\ request'.note_id \notin DOMAIN notes)
          => /\ call'.method = "none"
             /\ call'.chat_calls = 0
             /\ ai_sessions' = ai_sessions
             /\ IF request'.cleanup_type \in {"grammar", "structure", "clarity", "full"}
                   THEN response'.status = 404
                   ELSE response'.status = 422]_vars

\* C5 witness: a 404 from cleanup with a record already in the log.
C5_Witness ==
    /\ request.endpoint = "cleanup"
    /\ request.note_id \notin DOMAIN notes
    /\ response.status = 404
    /\ Len(ai_sessions) >= 1

\* C6 (as claimed): the rephrase endpoint accepts exactly the five styles
\* academic, casual, formal, creative and professional: a request with
\* non-empty text reaches the facade if its style is one of them and is
\* rejected at validation otherwise.
C6_FiveStylesAccepted ==
    (request.endpoint = "rephrase" /\ Len(request.text) >= 1)
        => IF request.style \in {"academic", "casual", "formal", "creative", "professional"}
              THEN response.status # 422 /\ call.method = "rephrase_text"
              ELSE response.status = 422 /\ call.method = "none"

\* The last request breaks its schema in one of the ways C7 lists.
FailsValidation ==
    \/ request.endpoint = "rephrase" /\ request.text = ""
    \/ request.endpoint = "rephrase"
        /\ request.style \notin {"academic", "casual", "formal", "creative", "professional"}
    \/ request.endpoint = "chat" /\ request.message = ""
    \/ request.endpoint = "cleanup"
        /\ request.cleanup_type \notin {"grammar", "structure", "clarity", "full"}
    \/ request.endpoint = "search" /\ request.max_results \notin 1..50

\* C7: a request that fails schema validation is answered 422 before any
\* facade or generation-client call and appends no audit record.
C7_InvalidRequestRejected ==
    [][FailsValidation'
          => /\ response'.status = 422
             /\ call'.method = "none"
             /\ call'.chat_calls = 0
             /\ ai_sessions' = ai_sessions]_vars

\* C7 witness: a rephrase request with empty text rejected while the log
\* holds a record.
C7_Witness ==
    /\ request.endpoint = "rephrase"
    /\ request.text = ""
    /\ response.status = 422
    /\ Len(ai_sessions) >= 1

\* C8 (as claimed): when a chat request lists ids of existing notes, the
\* note contents handed to the facade come in the order of the ids.
C8_ContextInRequestOrder ==
    (/\ request.endpoint = "chat"
     /\ call.method # "none"
     /\ Truthy(request.note_ids)
     /\ Range(request.note_ids[1]) \subseteq DOMAIN notes)
        => call.note_contents =
              [k \in 1..Len(request.note_ids[1]) |->
                  notes[request.note_ids[1][k]].title \o "\n\n"
                  \o notes[request.note_ids[1][k]].content]

\* C9 (as claimed): an AI search over a non-empty note set, where the model
\* answers with text that is no structured ranking, returns results=[] and
\* total_count=0 and raises nothing.
C9_UnparsedRankingIsEmptyResult ==
    (/\ request.endpoint = "search"
     /\ Len(request.query) >= 1
     /\ request.max_results \in 1..50
     /\ SearchedNotes # {}
     /\ call.host = "ok")
        => /\ response.status = 200
           /\ response.kind = "search"
           /\ response.results = <<>>
           /\ response.total_count = 0

\* C10: when the AI search handler hits an internal failure it answers 500,
\* not an envelope, after appending one audit record with session_type
\* "search" and success=false.
C10_SearchFailureIs500 ==
    [][(request'.endpoint = "search" /\ call'.raised)
          => /\ response'.status = 500
             /\ response'.kind = "error"
             /\ OneSessionAdded
             /\ LastSession'.session_type = "search"
             /\ LastSession'.success = FALSE
             /\ LastSession'.response = None]_vars

\* C10 witness: a search over stored notes that failed inside the handler.
C10_Witness ==
    /\ request.endpoint = "search"
    /\ call.raised
    /\ response.status = 500
    /\ LastSession.session_type = "search"

AIEndpoints == {"cleanup", "rephrase", "chat", "search", "models", "health"}

\* C11: no AI endpoint changes a note: after any cleanup, rephrase, chat or
\* AI-search request, successful or failed, the same notes are stored with
\* the title, content, workspace and tags they had before; the text cleanup
\* returns is not written back.
C11_AIRequestsLeaveNotesAlone ==
    [][request'.endpoint \in AIEndpoints
          => /\ DOMAIN notes' = DOMAIN notes
             /\ \A i \in DOMAIN notes :
                    /\ notes'[i].title = notes[i].title
                    /\ notes'[i].content = notes[i].content
                    /\ notes'[i].workspace_id = notes[i].workspace_id
                    /\ notes'[i].tags = notes[i].tags]_vars

\* C11 witness: a cleanup that succeeded and returned a text other than the
\* stored content of its note.
C11_Witness ==
    /\ request.endpoint = "cleanup"
    /\ response.kind = "envelope"
    /\ response.success
    /\ request.note_id \in DOMAIN notes
    /\ response.response # Some(notes[request.note_id].content)
    /\ LastSession.response = response.response

\* C19: the health probe returns a boolean and raises nothing; the health
\* endpoint answers 200 with {status, service} exactly when the probe
\* returns true and 503 otherwise.
C19_HealthFollowsProbe ==
    (request.endpoint = "health")
        => LET probe == ollama_service("check_health", <<>>, call.host)
           IN  /\ probe.ok
               /\ ~call.raised
               /\ probe.value \in BOOLEAN
               /\ probe.value = (call.host = "ok")
               /\ IF probe.value
                     THEN /\ response.status = 200
                          /\ response.kind = "health"
                          /\ DOMAIN response.body = {"status", "service"}
                     ELSE response.status = 503

\* C19 witness: the health endpoint answering 503 for a host that is down.
C19_Witness ==
    /\ request.endpoint = "health"
    /\ call.host = "unreachable"
    /\ response.status = 503

\* C20: model listing raises nothing: when the host cannot be listed
\* list_models returns the empty list, so the model-list endpoint answers
\* 200 with an empty list and never 503.
C20_ModelListingNeverFails ==
    (request.endpoint = "models")
        => /\ ~call.raised
           /\ response.status = 200
           /\ response.kind = "models"
           /\ call.host # "ok" => response.models = <<>>
           /\ call.host = "ok" => response.models = <<default_model>>

\* C20 witness: the model-list endpoint answering for a host that is down.
C20_Witness ==
    /\ request.endpoint = "models"
    /\ call.host = "unreachable"
    /\ response.status = 200

CleanupTypes == {"grammar", "structure", "clarity", "full"}

\* C12: for each of the cleanup types grammar, structure, clarity and full
\* the template selection yields a non-empty system instruction, different
\* from that of each other type; any other cleanup_type yields the
\* instruction of full.
C12_CleanupTemplateSelection ==
    (request.endpoint = "facade.cleanup_text")
        => LET instruction == call.messages[1]
           IN  /\ Len(call.messages) = 2
               /\ instruction.role = "system"
               /\ Len(instruction.content) > 0
               /\ IF request.cleanup_type \in CleanupTypes
                     THEN \A other \in CleanupTypes \ {request.cleanup_type} :
                             instruction.content # system_prompts(other)
                     ELSE instruction.content = system_prompts("full")

\* C12 witness: a cleanup call with an unknown type that went out with a
\* system message.
C12_Witness ==
    /\ request.endpoint = "facade.cleanup_text"
    /\ request.cleanup_type = "bogus"
    /\ call.chat_calls = 1
    /\ call.messages[1].role = "system"

RephraseStyles == {"academic", "professional", "casual", "creative", "formal"}

\* C13: for each of the rephrase styles academic, professional, casual,
\* creative and formal the template selection yields an instruction different
\* from that of each other style; every other style value yields one and the
\* same instruction.
C13_RephraseTemplateSelection ==
    (request.endpoint = "facade.rephrase_text")
        => LET instruction == call.messages[1]
           IN  /\ instruction.role = "system"
               /\ IF request.style \in RephraseStyles
                     THEN \A other \in RephraseStyles \ {request.style} :
                             instruction.content # style_prompts(other)
                     ELSE \A other \in FacadeStyleInputs \ RephraseStyles :
                             instruction.content = style_prompts(other)

\* C13 witness: a rephrase call with an unknown style that went out with a
\* system message.
C13_Witness ==
    /\ request.endpoint = "facade.rephrase_text"
    /\ request.style = "bogus"
    /\ call.chat_calls = 1
    /\ call.messages[1].role = "system"

UniqueNames(rows) ==
    \A i, j \in DOMAIN rows : i # j => rows[i].name # rows[j].name

\* C14: creating a workspace under the name of a stored workspace is
\* answered 400 and stores nothing; after every create, update or delete
\* request no two stored workspaces have the same name.
C14_WorkspaceNamesStayUnique ==
    [][/\ (/\ request'.endpoint = "create_workspace"
           /\ WorkspaceCreate(request'.body)
           /\ \E i \in DOMAIN workspaces : workspaces[i].name = request'.body.name[1])
          => /\ response'.status = 400
             /\ workspaces' = workspaces
             /\ notes' = notes
             /\ files' = files
       /\ UniqueNames(workspaces')]_vars

\* C14 witness: a workspace created through the API, then a second create
\* under its name answered 400.
C14_Witness ==
    /\ request.endpoint = "create_workspace"
    /\ request.body.name = Some("Bio")
    /\ response.status = 400
    /\ \E i \in DOMAIN workspaces : workspaces[i].name = "Bio"

\* C15: a successful delete of a workspace removes it and every note it
\* owns: a get of that workspace then answers 404 and no stored note has it
\* as its workspace.
C15_DeleteWorkspaceCascades ==
    [][(request'.endpoint = "delete_workspace" /\ response'.status = 204)
          => /\ request'.workspace_id \notin DOMAIN workspaces'
             /\ get_workspace_response(workspaces', notes', request'.workspace_id).status
                    = 404
             /\ \A i \in DOMAIN notes' :
                    notes'[i].workspace_id # request'.workspace_id]_vars

\* C15 witness: workspace 1 deleted right after its note 1 was saved, the
\* note gone with it.
C15_Witness ==
    /\ request.endpoint = "delete_workspace"
    /\ request.workspace_id = 1
    /\ response.status = 204
    /\ store_requests = 2
    /\ "workspace_1/1_A_b.md" \in DOMAIN files
    /\ 1 \notin DOMAIN notes

\* C16: creating a note whose workspace_id names no stored workspace is
\* answered 400 and leaves the stored notes and the files on disk as they were.
C16_CreateNoteNeedsWorkspace ==
    [][(/\ request'.endpoint = "create_note"
        /\ NoteCreate(request'.body)
        /\ request'.body.workspace_id[1] \notin DOMAIN workspaces)
          => /\ response'.status = 400
             /\ notes' = notes
             /\ files' = files]_vars

\* C16 witness: such a create answered 400 while a note file is on disk.
C16_Witness ==
    /\ request.endpoint = "create_note"
    /\ request.body.workspace_id[1] \notin DOMAIN workspaces
    /\ response.status = 400
    /\ DOMAIN files # {}

\* C17 (as claimed): once a note is deleted through the API no file written
\* for that note remains on disk, whatever creates and updates came before.
C17_DeleteNoteRemovesItsFiles ==
    [][(request'.endpoint = "delete_note" /\ response'.status = 204)
          => \A path \in DOMAIN files' :
                file_note_id(path) # ToString(request'.note_id)]_vars

\* C18: an update of a note or workspace that succeeds sets the fields the
\* request carries and leaves every other field of the row, and every other
\* row, as it was; a note keeps its tags when tag_ids is not supplied.
C18_UpdateChangesOnlySuppliedFields ==
    [][/\ (request'.endpoint = "update_note" /\ response'.status = 200)
          => LET id == request'.note_id
                 body == request'.body
             IN  /\ DOMAIN notes' = DOMAIN notes
                 /\ \A i \in DOMAIN notes \ {id} : notes'[i] = notes[i]
                 /\ \A f \in {"title", "content", "workspace_id"} :
                        notes'[id][f] = IF f \in DOMAIN body THEN body[f][1]
                                        ELSE notes[id][f]
                 /\ "tag_ids" \notin DOMAIN body => notes'[id].tags = notes[id].tags
                 /\ workspaces' = workspaces
       /\ (request'.endpoint = "update_workspace" /\ response'.status = 200)
          => LET id == request'.workspace_id
                 body == request'.body
             IN  /\ DOMAIN workspaces' = DOMAIN workspaces
                 /\ \A i \in DOMAIN workspaces \ {id} : workspaces'[i] = workspaces[i]
                 /\ workspaces'[id].name = IF "name" \in DOMAIN body THEN body.name[1]
                                           ELSE workspaces[id].name
                 /\ \A f \in {"description", "color"} :
                        workspaces'[id][f] = IF f \in DOMAIN body THEN body[f]
                                             ELSE workspaces[id][f]
                 /\ notes' = notes]_vars

\* C18 witness: a tagged note updated by a request that carries no tag_ids.
C18_Witness ==
    /\ request.endpoint = "update_note"
    /\ response.status = 200
    /\ "tag_ids" \notin DOMAIN request.body
    /\ notes[request.note_id].tags # {}

\* C22: an AI request makes at most one call to the LLM host: a generate
\* invocation is one chat call, whether it succeeds or fails, and nothing
\* calls again after a failure.
C22_AtMostOneHostCall ==
    (request.endpoint \in AIEndpoints)
        => /\ call.chat_calls <= 1
           /\ call.method \in {"cleanup_text", "rephrase_text"} => call.chat_calls = 1
           /\ call.method = "none" => call.chat_calls = 0

\* C22 witness: a cleanup during which the host answered with an API error,
\* after one chat call.
C22_Witness ==
    /\ request.endpoint = "cleanup"
    /\ call.host = "response_error"
    /\ call.raised
    /\ call.chat_calls = 1

\* C26: in every audit record the response text is present exactly when
\* the success flag is true.
C26_ResponsePresentIffSuccess ==
    \A k \in 1..Len(ai_sessions) :
        (ai_sessions[k].response # None) <=> ai_sessions[k].success

\* C26 witness: a log holding a failed search record and a successful
\* cleanup record.
C26_Witness ==
    /\ Len(ai_sessions) = 2
    /\ ai_sessions[1].session_type = "search"
    /\ ~ai_sessions[1].success
    /\ ai_sessions[1].response = None
    /\ ai_sessions[2].session_type = "cleanup"
    /\ ai_sessions[2].success
    /\ ai_sessions[2].response # None

\* C29: a chat request that lists ids of notes that do not exist is not
\* answered 404: the handler goes on with the contents of the listed notes
\* that exist, and the audit record it writes stores the id list as the
\* request gave it, missing ids included.
C29_ChatWithMissingNotes ==
    [][(/\ request'.endpoint = "chat"
        /\ AIChatRequest(request'.message, request'.note_ids)
        /\ Truthy(request'.note_ids)
        /\ ~(Range(request'.note_ids[1]) \subseteq DOMAIN notes))
          => /\ response'.status = 200
             /\ response'.kind = "envelope"
             /\ call'.method # "none"
             /\ Len(call'.note_contents)
                    = Cardinality(Range(request'.note_ids[1]) \cap DOMAIN notes)
             /\ \A i \in Range(request'.note_ids[1]) \cap DOMAIN notes :
                    \E k \in 1..Len(call'.note_contents) :
                        call'.note_contents[k]
                            = notes[i].title \o "\n\n" \o notes[i].content
             /\ OneSessionAdded
             /\ LastSession'.session_type = "chat"
             /\ LastSession'.note_ids
                    = Some("[" \o PyJoinInts(request'.note_ids[1]) \o "]")]_vars

\* C29 witness: a chat request listing notes 1 and 2 while only note 2 is
\* stored, handled with the one content.
C29_Witness ==
    /\ request.endpoint = "chat"
    /\ request.note_ids = Some(<<1, 2>>)
    /\ DOMAIN notes = {2}
    /\ Len(call.note_contents) = 1
    /\ LastSession.note_ids = Some("[1, 2]")

\* C25: the AI session log is append-only: every request leaves the records
\* already in the log in place and unchanged, so the log only grows, and the
\* deletion of a note or workspace keeps the records that list the note's id.
C25_LogIsAppendOnly ==
    [][/\ Len(ai_sessions') >= Len(ai_sessions)
       /\ SubSeq(ai_sessions', 1, Len(ai_sessions)) = ai_sessions
       /\ request'.endpoint \in {"delete_note", "delete_workspace"}
             => ai_sessions' = ai_sessions]_vars

\* C25 witness: note 1 deleted while a cleanup record that lists it is in
\* the log.
C25_Witness ==
    /\ request.endpoint \in {"delete_note", "delete_workspace"}
    /\ response.status = 204
    /\ 1 \notin DOMAIN notes
    /\ \E k \in 1..Len(ai_sessions) :
          /\ ai_sessions[k].session_type = "cleanup"
          /\ ai_sessions[k].note_ids = Some("[1]")

\* C27: a cleanup, rephrase or chat request that reaches the facade is
\* answered with an envelope whose success flag is true exactly when the
\* generation call returned normally, and appends exactly one audit record
\* with the same flag; a failure of the record's write after a successful
\* generation neither turns the answer into a failure nor adds a second record.
C27_EnvelopeFollowsGeneration ==
    [][(request'.endpoint \in EnvelopeEndpoints /\ call'.method # "none")
          => /\ response'.kind = "envelope"
             /\ response'.success = ~call'.raised
             /\ OneSessionAdded
             /\ LastSession'.success = response'.success]_vars

\* C28: an update of an existing workspace or note whose body passes schema
\* validation, an explicit null for name, title, content or workspace_id
\* included, is answered 200 or 400, and no stored row holds a null name,
\* title, content or workspace_id afterwards.
C28_UpdateEndsWith200Or400 ==
    [][(/\ request'.endpoint \in {"update_workspace", "update_note"}
        /\ response'.status \notin {422, 404})
          => /\ response'.status \in {200, 400}
             /\ \A i \in DOMAIN workspaces' : workspaces'[i].name # None
             /\ \A i \in DOMAIN notes' :
                    /\ notes'[i].title # None
                    /\ notes'[i].content # None
                    /\ notes'[i].workspace_id # None]_vars

\* C21: every stored note refers to a stored workspace.
C21_NotesReferToWorkspaces ==
    \A i \in DOMAIN notes : notes[i].workspace_id \in DOMAIN workspaces

\* The index, from 0, of the first place of the content where the query
\* stands, letter case aside; -1 when there is none.
FirstOccurrence(content, q) ==
    LET hits == {i \in 0..(Len(content) - Len(q)) :
                    PyLower(SubSeq(content, i + 1, i + Len(q))) = PyLower(q)}
    IN  IF hits = {} THEN -1
        ELSE CHOOSE i \in hits : \A j \in hits : i <= j

Max(a, b) == IF a > b THEN a ELSE b
Min(a, b) == IF a < b THEN a ELSE b

\* C30: every result of a simple search has relevance 1.0 (100 hundredths);
\* when the query occurs in the note's content, letter case aside, at first
\* position p, the snippet is "..." + content[max(0, p-50) : min(len, p+150)]
\* + "..."; when the query occurs in the title only, the snippet is the first
\* 200 characters of the content followed by "...".
C30_SimpleSearchSnippets ==
    request.endpoint = "simple_search" =>
        \A k \in 1..Len(response.results) :
            LET result == response.results[k]
                content == notes[result.note_id].content
                title == notes[result.note_id].title
                p == FirstOccurrence(content, request.q)
            IN  /\ result.relevance_score = 100
                /\ p # -1 =>
                      result.snippet =
                          "..." \o SubSeq(content, Max(0, p - 50) + 1,
                                          Min(Len(content), p + 150)) \o "..."
                /\ (p = -1 /\ FirstOccurrence(title, request.q) # -1) =>
                      result.snippet = SubSeq(content, 1, Min(200, Len(content))) \o "..."

\* C30 witness: one simple search that returns a note whose content holds the
\* query past position 50 and more than 150 characters before its end, with
\* a snippet of 200 characters between the dots, and a note matched by its
\* title alone.
C30_Witness ==
    /\ request.endpoint = "simple_search"
    /\ \E k \in 1..Len(response.results) :
          LET content == notes[response.results[k].note_id].content
              p == FirstOccurrence(content, request.q)
          IN  /\ p > 50
              /\ p + 150 < Len(content)
              /\ Len(response.results[k].snippet) = 206
    /\ \E k \in 1..Len(response.results) :
          LET content == notes[response.results[k].note_id].content
          IN  /\ FirstOccurrence(content, request.q) = -1
              /\ FirstOccurrence(notes[response.results[k].note_id].title, request.q) # -1
              /\ Len(content) > 200

\* C24: every create request with a valid body, however it interleaves with
\* another create under the same name, ends with 201 or with the 400
\* "already exists", and exactly one workspace with its name is stored then.
C24_ConcurrentCreatesEndWith201Or400 ==
    [][(/\ store_requests' = store_requests + 1
        /\ request'.endpoint = "create_workspace"
        /\ WorkspaceCreate(request'.body))
          => /\ response'.status \in {201, 400}
             /\ response'.status = 400 =>
                   response'.detail = "Workspace with this name already exists"
             /\ Cardinality({i \in DOMAIN workspaces' :
                    workspaces'[i].name = request'.body.name[1]}) = 1]_vars

\* C23: an update of a note that commits after another update of the same
\* note committed during its handling ends with 200, and every column that
\* both requests wrote holds the value of the one that commits now.
C23_InterleavedUpdatesLastWriteWins ==
    [][\A w \in Workers :
          (/\ workers[w].pc = "loaded"
           /\ workers'[w].pc = "idle"
           /\ workers[w].raced # {})
             => /\ response'.status = 200
                /\ \A f \in (workers[w].raced \cap DOMAIN workers[w].request.body)
                                \cap {"title", "content", "workspace_id"} :
                       notes'[workers[w].request.note_id][f]
                           = workers[w].request.body[f][1]]_vars

====
